---- MODULE Spec2Model ----
(***************************************************************************)
(* Model of the in-memory archive extractor (src/src/extractor.rs).        *)
(*                                                                         *)
(* One behaviour is one call ArchiveExtractor::extract(data, format) on an *)
(* extractor whose two limits were fixed by the builder.  The codec        *)
(* libraries are the environment: an archive is the sequence of entries    *)
(* its reader yields, each with the size its header declares, the number   *)
(* of bytes its content reader really yields, and the fault (if any) the   *)
(* library reports at it.  Byte contents are abstracted to their length.   *)
(* usize is taken to be as wide as the u64 sizes the libraries report, so  *)
(* the `as usize` casts are the identity.                                  *)
(***************************************************************************)
EXTENDS Integers, Sequences, FiniteSets, TLC

\* ---------------------------------------------------------------- bounds
\* entries per container
MaxEntries == 2
\* largest declared size / realized length of one entry
MaxSize == 2
\* largest value of either configured limit
MaxLimit == 2
\* width of the (scaled-down) machine word
UsizeBits == 5
\* builder calls made on one extractor
MaxCalls == 3

UsizeModulus == 2 ^ UsizeBits

\* ---------------------------------------------------------------- formats
TarCompressed == {"TarGz", "TarBz2", "TarXz", "TarZst", "TarLz4"}
TarFormats == {"Tar"} \cup TarCompressed
ArFormats == {"Ar", "Deb"}
SingleFormats == {"Gz", "Bz2", "Xz", "Lz4", "Zst"}
ContainerFormats == {"Zip", "SevenZ"} \cup TarFormats \cup ArFormats
ArchiveFormat == ContainerFormats \cup SingleFormats

\* Constructors that can fail before any entry is looked at:
\* ZipArchive::new, SevenZReader::new, zstd Decoder::new, lz4 Decoder::new.
OpenCanFail == {"Zip", "SevenZ", "TarZst", "TarLz4", "Zst", "Lz4"}

\* ---------------------------------------------------------------- inputs
\* Lengths a content reader can yield for an entry declaring size s.  The
\* tar, ar and 7z readers are cut off at the declared size and report a
\* short stream as an error; a ZIP entry's decoder runs to the end of its
\* compressed stream whatever size the central directory declares.
Yields(fmt, s) == IF fmt = "Zip" THEN 0 .. MaxSize ELSE {s}

\* Faults a content reader can report: the in-memory cursors of plain TAR
\* and AR cannot fail; everywhere else the codec under the reader can.
ReadCanFail(fmt) == fmt \notin ({"Tar"} \cup ArFormats)

DirSizes == {0, MaxSize}

BadHeader == [dir |-> FALSE, size |-> 0, yield |-> 0, fault |-> "header"]

DirEntries(fmt) ==
    IF fmt \in ArFormats THEN {}
    ELSE {[dir |-> TRUE, size |-> s, yield |-> 0, fault |-> "none"] : s \in DirSizes}

FileEntries(fmt) ==
    UNION {{[dir |-> FALSE, size |-> s, yield |-> y, fault |-> "none"] : y \in Yields(fmt, s)}
           : s \in 0 .. MaxSize}
    \cup (IF ReadCanFail(fmt)
          THEN {[dir |-> FALSE, size |-> s, yield |-> 0, fault |-> "read"] : s \in 0 .. MaxSize}
          ELSE {})

Entries(fmt) == {BadHeader} \cup DirEntries(fmt) \cup FileEntries(fmt)

\* A single-stream input is one payload with no declared size.
Payloads ==
    {[dir |-> FALSE, size |-> 0, yield |-> y, fault |-> "none"] : y \in 0 .. MaxSize}
    \cup {[dir |-> FALSE, size |-> 0, yield |-> 0, fault |-> "read"]}

Inputs(fmt) ==
    IF fmt \in SingleFormats
    THEN {<<p>> : p \in Payloads}
    ELSE UNION {[1 .. n -> Entries(fmt)] : n \in 0 .. MaxEntries}

\* Names as the libraries hand them over.  The zip and 7z readers give a
\* decoded string; a TAR header's path, an AR header's identifier and a gzip
\* header's filename are bytes, which need not be UTF-8.
Utf8Names == {"a", "b"}

BadUtf8 == "\\xFF"

\* The gzip header (or a single-stream format without one) stores no filename.
NoName == "<none>"

RawNames(fmt) ==
    IF fmt \in {"Zip", "SevenZ"} THEN Utf8Names
    ELSE IF fmt = "Gz" THEN Utf8Names \cup {BadUtf8, NoName}
    ELSE IF fmt \in SingleFormats THEN {NoName}
    ELSE Utf8Names \cup {BadUtf8}

NameInputs(fmt, d) == [1 .. Len(d) -> RawNames(fmt)]

\* The names the size-only behaviours give the entries of an input.
PlainNames(fmt, d) ==
    [k \in 1 .. Len(d) |-> IF fmt \in SingleFormats THEN NoName ELSE "a"]

Unopenable(fmt, d) ==
    /\ fmt \in OpenCanFail
    /\ \/ fmt \in ContainerFormats /\ d = <<>>
       \/ fmt \in SingleFormats /\ d[1].yield = 0 /\ d[1].fault = "none"

VARIABLES
    max_file_size,    \* ArchiveExtractor.max_file_size
    max_total_size,   \* ArchiveExtractor.max_total_size
    format,           \* the format tag of the call
    data,             \* the input, as the entries its reader yields
    names,            \* the name each entry's header stores
    valid,            \* FALSE: the reader's constructor rejects the input
    pc,               \* position of the call
    i,                \* index of the entry the loop is at
    total_size,       \* running total (local to the call)
    files,            \* entries materialized so far (local to the call)
    output,           \* bytes held by extract_tar_xz's decompressed buffer
    decompressed,     \* bytes held by a single-stream routine's buffer
    size_error,       \* extract_7z: the limit error its callback recorded
    result,           \* extract_7z: what for_each_entries returned
    ret,              \* what extract returned
    reads,            \* indices of the entries whose content reader was read
    yielded,          \* indices of the entries handed to the engine, in order
    other,            \* a second call on the same extractor, while it is not running
    calls,            \* the setter calls made on the extractor since new()
    mime,             \* a MimeType value the caller holds
    converted,        \* the last conversion between tag and MimeType, and its result
    overflow_checks   \* the build traps integer overflow (debug profile)

vars == <<max_file_size, max_total_size, format, data, names, valid, pc, i, total_size,
          files, output, decompressed, size_error, result, ret, reads, yielded, other,
          calls, mime, converted, overflow_checks>>

\* What no step of a call writes: the extractor (&self), the call's arguments,
\* the other call's locals and the values outside the call.
config == <<max_file_size, max_total_size, format, data, names, valid, other,
            calls, mime, converted, overflow_checks>>

\* ---------------------------------------------------------------- helpers
RECURSIVE SumData(_)
SumData(fs) == IF fs = <<>> THEN 0 ELSE Head(fs).data + SumData(Tail(fs))

RECURSIVE StreamLen(_)
\* Content bytes of a decompressed TAR stream (headers and padding left out).
StreamLen(d) == IF d = <<>> THEN 0 ELSE Head(d).size + StreamLen(Tail(d))

None == [kind |-> "none", size |-> 0, limit |-> 0, files |-> <<>>]

Ok(fs) == [kind |-> "Ok", size |-> 0, limit |-> 0, files |-> fs]

Err(kind) == [kind |-> kind, size |-> 0, limit |-> 0, files |-> <<>>]

FileTooLarge(size) ==
    [kind |-> "FileTooLarge", size |-> size, limit |-> max_file_size, files |-> <<>>]

TotalSizeTooLarge(size) ==
    [kind |-> "TotalSizeTooLarge", size |-> size, limit |-> max_total_size, files |-> <<>>]

ExtractedFile(path, len, is_directory) ==
    [path |-> path, data |-> len, is_directory |-> is_directory]

\* Mutant: the running total is assigned, not accumulated.
AddUsize_Assign(a, b) == b % UsizeModulus

\* `total_size += size` on usize.
AddUsize(a, b) == (a + b) % UsizeModulus

\* `total_size += size` panics ("attempt to add with overflow") in a build
\* with overflow checks; without them the sum wraps.
Overflows(a, b) == overflow_checks /\ a + b >= UsizeModulus

\* The call unwinds with a panic: no Result is returned.
Panic == [kind |-> "panic", size |-> 0, limit |-> 0, files |-> <<>>]

\* Mutant: a size equal to the limit is refused too.
Exceeds_OrEqual(size, limit) == size >= limit

\* Mutant: a size below the limit is the one that is refused.
Exceeds_Below(size, limit) == size < limit

\* `size > self.max_file_size`, `total_size > self.max_total_size`
Exceeds(size, limit) == size > limit

\* Mutant: the per-entry check compares against the aggregate limit.
ExceedsFileLimit_TotalLimit(size) == size > max_total_size

\* if size > self.max_file_size
ExceedsFileLimit(size) == Exceeds(size, max_file_size)

\* Mutant: the aggregate check is missing.
ExceedsTotalLimit_Never(total) == FALSE

\* if total_size > self.max_total_size
ExceedsTotalLimit(total) == Exceeds(total, max_total_size)

\* Mutant: directory entries are handled as files.
IsDirectory_Never(e) == FALSE

\* file.is_dir(), entry.header().entry_type().is_dir(), entry.is_directory()
IsDirectory(e) == e.dir

Return(r) == ret' = r /\ pc' = "done"

\* to_string_lossy / String::from_utf8_lossy: invalid bytes become U+FFFD.
Lossy(raw) == IF raw = BadUtf8 THEN "\\uFFFD" ELSE raw

\* Mutant: the gzip header's filename is never looked at.
GzPath_AlwaysData(raw) == "data"

\* decoder.header().and_then(|h| h.filename())
\*     .and_then(|f| std::str::from_utf8(f).ok()).unwrap_or("data")
GzPath(raw) == IF raw \in {NoName, BadUtf8} THEN "data" ELSE raw

\* The path an entry is returned under.
Path(fmt, raw) ==
    IF fmt \in TarFormats \cup ArFormats THEN Lossy(raw)
    ELSE IF fmt = "Gz" THEN GzPath(raw)
    ELSE IF fmt \in SingleFormats THEN "data"
    ELSE raw

\* ---------------------------------------------------------------- Init
\* There is no second call.
NoCall == [pc |-> "none"]

NoMime == "<none>"

NoConversion == [op |-> "none"]

\* The MimeType converted to a tag was not itself converted from a tag.
NoTag == "<none>"

\* No builder call and no conversion is part of the behaviour.
NoApi ==
    /\ calls = <<>>
    /\ mime = NoMime
    /\ converted = NoConversion

\* A call that has not started.
Start ==
    /\ pc = "extract"
    /\ i = 1
    /\ total_size = 0
    /\ files = <<>>
    /\ output = 0
    /\ decompressed = 0
    /\ size_error = None
    /\ result = "none"
    /\ ret = None
    /\ reads = {}
    /\ yielded = <<>>

Init ==
    /\ max_file_size \in 0 .. MaxLimit
    /\ max_total_size \in 0 .. MaxLimit
    /\ format \in ArchiveFormat
    /\ data \in Inputs(format)
    /\ names = PlainNames(format, data)
    /\ valid \in (IF Unopenable(format, data) THEN BOOLEAN ELSE {TRUE})
    /\ Start
    /\ other = NoCall
    /\ NoApi
    /\ overflow_checks = FALSE

\* The behaviours that look at paths: every name a header can store, under
\* the widest limits.
InitNamed ==
    /\ max_file_size = MaxLimit
    /\ max_total_size = MaxLimit
    /\ format \in ArchiveFormat
    /\ data \in Inputs(format)
    /\ names \in NameInputs(format, data)
    /\ valid \in (IF Unopenable(format, data) THEN BOOLEAN ELSE {TRUE})
    /\ Start
    /\ other = NoCall
    /\ NoApi
    /\ overflow_checks = FALSE

\* Declared sizes and limits up to the largest value of the machine word.
WideSizes == {UsizeModulus \div 2, UsizeModulus - 1}

WideLimits == {UsizeModulus \div 2, UsizeModulus - 1}

\* Entries whose header declares a size of that order.  The input, held in
\* memory, is shorter than any such size: a tar, ar or 7z reader runs out of
\* input while reading the content, a ZIP entry's decoder ends with its
\* (short) compressed stream.
WideEntries(fmt) ==
    {[dir |-> FALSE, size |-> 1, yield |-> y, fault |-> "none"] : y \in Yields(fmt, 1)}
    \cup (IF fmt = "Zip"
          THEN {[dir |-> FALSE, size |-> s, yield |-> 1, fault |-> "none"] : s \in WideSizes}
          ELSE {[dir |-> FALSE, size |-> s, yield |-> 0, fault |-> "read"] : s \in WideSizes})

WideInputs(fmt) ==
    IF fmt \in SingleFormats
    THEN Inputs(fmt)
    ELSE UNION {[1 .. n -> WideEntries(fmt)] : n \in 0 .. MaxEntries}

\* Calls under limits of the order of the machine word, in either build.
InitWide ==
    /\ max_file_size \in WideLimits
    /\ max_total_size \in WideLimits
    /\ format \in ArchiveFormat
    /\ data \in WideInputs(format)
    /\ names = PlainNames(format, data)
    /\ valid \in (IF Unopenable(format, data) THEN BOOLEAN ELSE {TRUE})
    /\ Start
    /\ other = NoCall
    /\ NoApi
    /\ overflow_checks \in BOOLEAN

\* Inputs of the two-call behaviours: at most one entry, of one byte.
TwoInputs(fmt) ==
    {d \in Inputs(fmt) :
        /\ Len(d) <= 1
        /\ \A k \in 1 .. Len(d) :
              /\ d[k].fault = "none"
              /\ d[k].yield = (IF d[k].dir THEN 0 ELSE 1)
              /\ d[k].size = (IF d[k].dir \/ fmt \in SingleFormats THEN 0 ELSE 1)}

\* The locals and arguments of a call that has not started.
StartFrame(fmt, d, v) ==
    [format |-> fmt, data |-> d, names |-> PlainNames(fmt, d), valid |-> v,
     pc |-> "extract", i |-> 1, total_size |-> 0, files |-> <<>>, output |-> 0,
     decompressed |-> 0, size_error |-> None, result |-> "none", ret |-> None,
     reads |-> {}, yielded |-> <<>>]

\* Two calls extract(&self, ..) on one extractor, neither started.
InitTwo ==
    /\ max_file_size \in 0 .. MaxLimit
    /\ max_total_size \in 0 .. MaxLimit
    /\ format \in ArchiveFormat
    /\ data \in TwoInputs(format)
    /\ names = PlainNames(format, data)
    /\ valid \in (IF Unopenable(format, data) THEN BOOLEAN ELSE {TRUE})
    /\ Start
    /\ \E fmt \in ArchiveFormat : \E d \in TwoInputs(fmt) :
          \E v \in (IF Unopenable(fmt, d) THEN BOOLEAN ELSE {TRUE}) :
              other = StartFrame(fmt, d, v)
    /\ NoApi
    /\ overflow_checks = FALSE

\* ---------------------------------------------------------------- extract
\* Mutant: Deb is handed to the ZIP routine to unpack what it holds.
Routine_DebUnpacked(fmt) ==
    CASE fmt = "Zip" -> "extract_zip"
      [] fmt = "Tar" -> "extract_tar"
      [] fmt = "Ar" -> "extract_ar"
      [] fmt = "Deb" -> "extract_zip"
      [] fmt = "TarGz" -> "extract_tar_gz"
      [] fmt = "TarBz2" -> "extract_tar_bz2"
      [] fmt = "TarXz" -> "extract_tar_xz"
      [] fmt = "TarZst" -> "extract_tar_zst"
      [] fmt = "TarLz4" -> "extract_tar_lz4"
      [] fmt = "SevenZ" -> "extract_7z"
      [] fmt = "Gz" -> "extract_single_gz"
      [] fmt = "Bz2" -> "extract_single_bz2"
      [] fmt = "Xz" -> "extract_single_xz"
      [] fmt = "Lz4" -> "extract_single_lz4"
      [] fmt = "Zst" -> "extract_single_zst"

Routine(fmt) ==
    CASE fmt = "Zip" -> "extract_zip"
      [] fmt = "Tar" -> "extract_tar"
      [] fmt = "Ar" -> "extract_ar"
      [] fmt = "Deb" -> "extract_deb"
      [] fmt = "TarGz" -> "extract_tar_gz"
      [] fmt = "TarBz2" -> "extract_tar_bz2"
      [] fmt = "TarXz" -> "extract_tar_xz"
      [] fmt = "TarZst" -> "extract_tar_zst"
      [] fmt = "TarLz4" -> "extract_tar_lz4"
      [] fmt = "SevenZ" -> "extract_7z"
      [] fmt = "Gz" -> "extract_single_gz"
      [] fmt = "Bz2" -> "extract_single_bz2"
      [] fmt = "Xz" -> "extract_single_xz"
      [] fmt = "Lz4" -> "extract_single_lz4"
      [] fmt = "Zst" -> "extract_single_zst"

\* Mutant: the call lowers the per-entry limit to the aggregate one.
extract_ClampsLimit ==
    /\ pc = "extract"
    /\ pc' = Routine(format)
    /\ max_file_size' = IF max_file_size > max_total_size
                        THEN max_total_size ELSE max_file_size
    /\ UNCHANGED <<max_total_size, format, data, names, valid, other, calls, mime,
                   converted, overflow_checks, i, total_size, files, output,
                   decompressed, size_error, result, ret, reads, yielded>>

extract ==
    /\ pc = "extract"
    /\ pc' = Routine(format)
    /\ UNCHANGED <<config, i, total_size, files, output, decompressed, size_error,
                   result, ret, reads, yielded>>

\* ---------------------------------------------------------------- ZIP
\* Push of one materialized entry and the step to the next loop iteration.
\* Mutant: an entry whose path was already returned is merged into the first.
Push_Dedup(len, is_directory, loop) ==
    /\ files' = IF \E k \in 1 .. Len(files) : files[k].path = Path(format, names[i])
                THEN files
                ELSE Append(files, ExtractedFile(Path(format, names[i]), len, is_directory))
    /\ i' = i + 1
    /\ pc' = loop

Push(len, is_directory, loop) ==
    /\ files' = Append(files, ExtractedFile(Path(format, names[i]), len, is_directory))
    /\ i' = i + 1
    /\ pc' = loop

extract_zip ==
    /\ pc = "extract_zip"
    /\ IF ~valid
       THEN Return(Err("Zip")) /\ UNCHANGED <<i, total_size, files>>
       ELSE /\ files' = <<>>
            /\ total_size' = 0
            /\ i' = 1
            /\ pc' = "zip_for"
            /\ UNCHANGED ret
    /\ UNCHANGED <<config, output, decompressed, size_error, result, reads, yielded>>

\* for i in 0..archive.len() { let mut file = archive.by_index(i)?; ...
extract_zip_by_index ==
    /\ pc = "zip_for"
    /\ IF i > Len(data)
       THEN Return(Ok(files)) /\ UNCHANGED yielded
       ELSE IF data[i].fault = "header"
       THEN Return(Err("Zip")) /\ UNCHANGED yielded
       ELSE /\ yielded' = Append(yielded, i)
            /\ pc' = "zip_entry"
            /\ UNCHANGED ret
    /\ UNCHANGED <<config, i, total_size, files, output, decompressed, size_error,
                   result, reads>>

\* the size checks of a file entry, or the push of a directory entry
extract_zip_entry ==
    /\ pc = "zip_entry"
    /\ LET file == data[i] IN
       IF ~IsDirectory(file)
       THEN IF ExceedsFileLimit(file.size)
            THEN Return(FileTooLarge(file.size)) /\ UNCHANGED <<i, total_size, files>>
            ELSE IF Overflows(total_size, file.size)
            THEN Return(Panic) /\ UNCHANGED <<i, total_size, files>>
            ELSE /\ total_size' = AddUsize(total_size, file.size)
                 /\ IF ExceedsTotalLimit(total_size')
                    THEN Return(TotalSizeTooLarge(total_size'))
                    ELSE pc' = "zip_read" /\ UNCHANGED ret
                 /\ UNCHANGED <<i, files>>
       ELSE Push(0, TRUE, "zip_for") /\ UNCHANGED <<total_size, ret>>
    /\ UNCHANGED <<config, output, decompressed, size_error, result, reads, yielded>>

\* file.read_to_end(&mut contents)?; files.push(..)
extract_zip_read ==
    /\ pc = "zip_read"
    /\ reads' = reads \cup {i}
    /\ IF data[i].fault = "read"
       THEN Return(Err("Io")) /\ UNCHANGED <<i, files>>
       ELSE Push(data[i].yield, FALSE, "zip_for") /\ UNCHANGED ret
    /\ UNCHANGED <<config, total_size, output, decompressed, size_error, result, yielded>>

\* ---------------------------------------------------------------- TAR
\* extract_tar, extract_tar_gz, extract_tar_bz2, extract_tar_zst and
\* extract_tar_lz4 put a streaming decoder under the TAR reader.
extract_tar_streaming ==
    /\ pc \in {"extract_tar", "extract_tar_gz", "extract_tar_bz2", "extract_tar_zst",
               "extract_tar_lz4"}
    /\ IF ~valid
       THEN Return(Err("Io")) /\ UNCHANGED <<i, total_size, files>>
       ELSE /\ files' = <<>>
            /\ total_size' = 0
            /\ i' = 1
            /\ pc' = "tar_for"
            /\ UNCHANGED ret
    /\ UNCHANGED <<config, output, decompressed, size_error, result, reads, yielded>>

\* Mutant: xz_decompress rejects every stream.
XzStreamCorrupt_Always(d) == TRUE

\* extract_tar_xz decompresses the whole stream into `output` first.
XzStreamCorrupt(d) == \E k \in 1 .. Len(d) : d[k].fault = "read"

extract_tar_xz ==
    /\ pc = "extract_tar_xz"
    /\ IF XzStreamCorrupt(data)
       THEN Return(Err("InvalidArchive")) /\ UNCHANGED <<i, total_size, files, output>>
       ELSE /\ output' = StreamLen(data)
            /\ files' = <<>>
            /\ total_size' = 0
            /\ i' = 1
            /\ pc' = "tar_for"
            /\ UNCHANGED ret
    /\ UNCHANGED <<config, decompressed, size_error, result, reads, yielded>>

\* for entry_result in archive.entries()? { let mut entry = entry_result?; ...
process_tar_entries_next ==
    /\ pc = "tar_for"
    /\ IF i > Len(data)
       THEN Return(Ok(files)) /\ UNCHANGED yielded
       ELSE IF data[i].fault = "header"
       THEN Return(Err("Io")) /\ UNCHANGED yielded
       ELSE /\ yielded' = Append(yielded, i)
            /\ pc' = "tar_entry"
            /\ UNCHANGED ret
    /\ UNCHANGED <<config, i, total_size, files, output, decompressed, size_error,
                   result, reads>>

process_tar_entries_entry ==
    /\ pc = "tar_entry"
    /\ LET entry == data[i] IN
       IF ~IsDirectory(entry)
       THEN IF ExceedsFileLimit(entry.size)
            THEN Return(FileTooLarge(entry.size)) /\ UNCHANGED <<i, total_size, files>>
            ELSE IF Overflows(total_size, entry.size)
            THEN Return(Panic) /\ UNCHANGED <<i, total_size, files>>
            ELSE /\ total_size' = AddUsize(total_size, entry.size)
                 /\ IF ExceedsTotalLimit(total_size')
                    THEN Return(TotalSizeTooLarge(total_size'))
                    ELSE pc' = "tar_read" /\ UNCHANGED ret
                 /\ UNCHANGED <<i, files>>
       ELSE Push(0, TRUE, "tar_for") /\ UNCHANGED <<total_size, ret>>
    /\ UNCHANGED <<config, output, decompressed, size_error, result, reads, yielded>>

process_tar_entries_read ==
    /\ pc = "tar_read"
    /\ reads' = reads \cup {i}
    /\ IF data[i].fault = "read"
       THEN Return(Err("Io")) /\ UNCHANGED <<i, files>>
       ELSE Push(data[i].yield, FALSE, "tar_for") /\ UNCHANGED ret
    /\ UNCHANGED <<config, total_size, output, decompressed, size_error, result, yielded>>

\* ---------------------------------------------------------------- AR / DEB
extract_ar ==
    /\ pc \in {"extract_ar", "extract_deb"}
    /\ files' = <<>>
    /\ total_size' = 0
    /\ i' = 1
    /\ pc' = "ar_while"
    /\ UNCHANGED <<config, output, decompressed, size_error, result, ret, reads, yielded>>

\* while let Some(entry_result) = archive.next_entry() { let mut entry = entry_result?;
process_ar_entries_next ==
    /\ pc = "ar_while"
    /\ IF i > Len(data)
       THEN Return(Ok(files)) /\ UNCHANGED yielded
       ELSE IF data[i].fault = "header"
       THEN Return(Err("Io")) /\ UNCHANGED yielded
       ELSE /\ yielded' = Append(yielded, i)
            /\ pc' = "ar_entry"
            /\ UNCHANGED ret
    /\ UNCHANGED <<config, i, total_size, files, output, decompressed, size_error,
                   result, reads>>

process_ar_entries_entry ==
    /\ pc = "ar_entry"
    /\ LET size == data[i].size IN
       IF ExceedsFileLimit(size)
       THEN Return(FileTooLarge(size)) /\ UNCHANGED total_size
       ELSE IF Overflows(total_size, size)
       THEN Return(Panic) /\ UNCHANGED total_size
       ELSE /\ total_size' = AddUsize(total_size, size)
            /\ IF ExceedsTotalLimit(total_size')
               THEN Return(TotalSizeTooLarge(total_size'))
               ELSE pc' = "ar_read" /\ UNCHANGED ret
    /\ UNCHANGED <<config, i, files, output, decompressed, size_error, result, reads,
                   yielded>>

process_ar_entries_read ==
    /\ pc = "ar_read"
    /\ reads' = reads \cup {i}
    /\ IF data[i].fault = "read"
       THEN Return(Err("Io")) /\ UNCHANGED <<i, files>>
       ELSE Push(data[i].yield, FALSE, "ar_while") /\ UNCHANGED ret
    /\ UNCHANGED <<config, total_size, output, decompressed, size_error, result, yielded>>

\* ---------------------------------------------------------------- 7z
\* Mutant: for_each_entries goes on whatever the closure returns.
ClosureReturns_AlwaysContinue(continue) == "7z_for_each"

\* Where for_each_entries goes when the closure returns Ok(continue):
\* Ok(true) asks for the next entry, Ok(false) ends the traversal.
ClosureReturns(continue) == IF continue THEN "7z_for_each" ELSE "7z_after"

extract_7z ==
    /\ pc = "extract_7z"
    /\ IF ~valid
       THEN Return(Err("InvalidArchive")) /\ UNCHANGED <<i, total_size, files, size_error>>
       ELSE /\ files' = <<>>
            /\ total_size' = 0
            /\ size_error' = None
            /\ i' = 1
            /\ pc' = "7z_for_each"
            /\ UNCHANGED ret
    /\ UNCHANGED <<config, output, decompressed, result, reads, yielded>>

\* archive.for_each_entries: the library hands the next entry to the closure,
\* or returns: Ok(()) at the end of the container, Err on a malformed entry.
extract_7z_for_each_entries ==
    /\ pc = "7z_for_each"
    /\ IF i > Len(data)
       THEN result' = "Ok" /\ pc' = "7z_after" /\ UNCHANGED yielded
       ELSE IF data[i].fault = "header"
       THEN result' = "Err" /\ pc' = "7z_after" /\ UNCHANGED yielded
       ELSE /\ yielded' = Append(yielded, i)
            /\ pc' = "7z_closure"
            /\ UNCHANGED result
    /\ UNCHANGED <<config, i, total_size, files, output, decompressed, size_error, ret,
                   reads>>

\* The closure up to its read: Ok(false) makes for_each_entries return Ok(()).
extract_7z_closure ==
    /\ pc = "7z_closure"
    /\ LET entry == data[i] IN
       IF IsDirectory(entry)
       THEN Push(0, TRUE, ClosureReturns(TRUE))
            /\ UNCHANGED <<total_size, size_error, result, ret>>
       ELSE IF ExceedsFileLimit(entry.size)
            THEN /\ size_error' = FileTooLarge(entry.size)
                 /\ result' = "Ok"
                 /\ pc' = ClosureReturns(FALSE)
                 /\ UNCHANGED <<i, total_size, files, ret>>
            ELSE IF Overflows(total_size, entry.size)
            THEN Return(Panic) /\ UNCHANGED <<i, total_size, files, size_error, result>>
            ELSE /\ total_size' = AddUsize(total_size, entry.size)
                 /\ IF ExceedsTotalLimit(total_size')
                    THEN /\ size_error' = TotalSizeTooLarge(total_size')
                         /\ result' = "Ok"
                         /\ pc' = ClosureReturns(FALSE)
                    ELSE pc' = "7z_read" /\ UNCHANGED <<size_error, result>>
                 /\ UNCHANGED <<i, files, ret>>
    /\ UNCHANGED <<config, output, decompressed, reads, yielded>>

\* reader.read_to_end(&mut contents)?; files.push(..); Ok(true)
extract_7z_read ==
    /\ pc = "7z_read"
    /\ reads' = reads \cup {i}
    /\ IF data[i].fault = "read"
       THEN result' = "Err" /\ pc' = "7z_after" /\ UNCHANGED <<i, files>>
       ELSE Push(data[i].yield, FALSE, ClosureReturns(TRUE)) /\ UNCHANGED result
    /\ UNCHANGED <<config, total_size, output, decompressed, size_error, ret, yielded>>

\* Mutant: the recorded limit error is not looked at after the traversal.
SizeErrorRecorded_Ignored == FALSE

SizeErrorRecorded == size_error # None

\* if let Some(err) = size_error { return Err(err) }; result.map_err(..)?; Ok(files)
extract_7z_after ==
    /\ pc = "7z_after"
    /\ IF SizeErrorRecorded
       THEN Return(size_error)
       ELSE IF result = "Err"
       THEN Return(Err("InvalidArchive"))
       ELSE Return(Ok(files))
    /\ UNCHANGED <<config, i, total_size, files, output, decompressed, size_error,
                   result, reads, yielded>>

\* ---------------------------------------------------------------- single stream
SingleRoutines == {Routine(f) : f \in SingleFormats}

\* The error a failed decode is reported as: xz_decompress's is mapped to
\* InvalidArchive, the other decoders' io::Error converts to Io.
DecodeError(fmt) == IF fmt = "Xz" THEN Err("InvalidArchive") ELSE Err("Io")

\* Decoder::new(cursor)? and decoder.read_to_end(&mut decompressed)?
\* (xz: lzma_rs::xz_decompress): the whole stream is decoded into the buffer.
extract_single_decode ==
    /\ pc \in SingleRoutines
    /\ IF ~valid
       THEN Return(Err("Io")) /\ UNCHANGED <<decompressed, reads, yielded>>
       ELSE /\ yielded' = Append(yielded, 1)
            /\ reads' = reads \cup {1}
            /\ IF data[1].fault = "read"
               THEN Return(DecodeError(format)) /\ UNCHANGED decompressed
               ELSE /\ decompressed' = data[1].yield
                    /\ pc' = "single_len"
                    /\ UNCHANGED ret
    /\ UNCHANGED <<config, i, total_size, files, output, size_error, result>>

\* if decompressed.len() > self.max_file_size { .. }  Ok(vec![ExtractedFile {..}])
extract_single_len ==
    /\ pc = "single_len"
    /\ IF ExceedsFileLimit(decompressed)
       THEN Return(FileTooLarge(decompressed))
       ELSE Return(Ok(<<ExtractedFile(Path(format, names[1]), decompressed, FALSE)>>))
    /\ UNCHANGED <<config, i, total_size, files, output, decompressed, size_error,
                   result, reads, yielded>>

\* ---------------------------------------------------------------- one call, start to end
\* What extract(data, format) returns, as a function of the input and of the
\* two limits: the routines above run from their first step to their return.
OpenError(fmt) ==
    IF fmt = "Zip" THEN Err("Zip")
    ELSE IF fmt = "SevenZ" THEN Err("InvalidArchive")
    ELSE Err("Io")

\* by_index(i)?, entry_result?, and a failing for_each_entries
HeaderError(fmt) ==
    IF fmt = "Zip" THEN Err("Zip")
    ELSE IF fmt = "SevenZ" THEN Err("InvalidArchive")
    ELSE Err("Io")

\* read_to_end(&mut contents)?
ReadError(fmt) == IF fmt = "SevenZ" THEN Err("InvalidArchive") ELSE Err("Io")

RECURSIVE ProcessEntries(_, _, _, _, _, _, _, _)
\* The entry loop of a container routine from entry k on, with the running
\* total and the entries pushed so far.
ProcessEntries(fmt, d, nm, limit_file, limit_total, k, total, fs) ==
    IF k > Len(d) THEN Ok(fs)
    ELSE IF d[k].fault = "header" THEN HeaderError(fmt)
    ELSE IF IsDirectory(d[k])
    THEN ProcessEntries(fmt, d, nm, limit_file, limit_total, k + 1, total,
                        Append(fs, ExtractedFile(Path(fmt, nm[k]), 0, TRUE)))
    ELSE IF Exceeds(d[k].size, limit_file)
    THEN [kind |-> "FileTooLarge", size |-> d[k].size, limit |-> limit_file,
          files |-> <<>>]
    ELSE IF Overflows(total, d[k].size) THEN Panic
    ELSE IF Exceeds(AddUsize(total, d[k].size), limit_total)
    THEN [kind |-> "TotalSizeTooLarge", size |-> AddUsize(total, d[k].size),
          limit |-> limit_total, files |-> <<>>]
    ELSE IF d[k].fault = "read" THEN ReadError(fmt)
    ELSE ProcessEntries(fmt, d, nm, limit_file, limit_total, k + 1,
                        AddUsize(total, d[k].size),
                        Append(fs, ExtractedFile(Path(fmt, nm[k]), d[k].yield, FALSE)))

ExtractSingle(fmt, d, nm, v, limit_file) ==
    IF ~v THEN Err("Io")
    ELSE IF d[1].fault = "read" THEN DecodeError(fmt)
    ELSE IF Exceeds(d[1].yield, limit_file)
    THEN [kind |-> "FileTooLarge", size |-> d[1].yield, limit |-> limit_file,
          files |-> <<>>]
    ELSE Ok(<<ExtractedFile(Path(fmt, nm[1]), d[1].yield, FALSE)>>)

Outcome(fmt, d, nm, v, limit_file, limit_total) ==
    IF fmt \in SingleFormats THEN ExtractSingle(fmt, d, nm, v, limit_file)
    ELSE IF ~v THEN OpenError(fmt)
    ELSE IF fmt = "TarXz" /\ XzStreamCorrupt(d) THEN Err("InvalidArchive")
    ELSE ProcessEntries(fmt, d, nm, limit_file, limit_total, 1, 0, <<>>)

\* ---------------------------------------------------------------- behaviours
Next ==
    \/ extract
    \/ extract_zip
    \/ extract_zip_by_index
    \/ extract_zip_entry
    \/ extract_zip_read
    \/ extract_tar_streaming
    \/ extract_tar_xz
    \/ process_tar_entries_next
    \/ process_tar_entries_entry
    \/ process_tar_entries_read
    \/ extract_ar
    \/ process_ar_entries_next
    \/ process_ar_entries_entry
    \/ process_ar_entries_read
    \/ extract_7z
    \/ extract_7z_for_each_entries
    \/ extract_7z_closure
    \/ extract_7z_read
    \/ extract_7z_after
    \/ extract_single_decode
    \/ extract_single_len

Spec == Init /\ [][Next]_vars

SpecNamed == InitNamed /\ [][Next]_vars

SpecWide == InitWide /\ [][Next]_vars

\* A call, once made, keeps running until it returns or unwinds: calls
\* under either range of limits, every step taken eventually.
SpecLive == (Init \/ InitWide) /\ [][Next]_vars /\ WF_vars(Next)

\* ---------------------------------------------------------------- two calls
\* The locals and arguments of the running call.
Frame ==
    [format |-> format, data |-> data, names |-> names, valid |-> valid,
     pc |-> pc, i |-> i, total_size |-> total_size, files |-> files,
     output |-> output, decompressed |-> decompressed, size_error |-> size_error,
     result |-> result, ret |-> ret, reads |-> reads, yielded |-> yielded]

\* Mutant: the running total is a field of the extractor, common to its calls.
RestoredTotal_Shared(call) == total_size

\* `let mut total_size = 0usize;` is a local of the call: the call that takes
\* the processor finds its own running total.
RestoredTotal(call) == call.total_size

\* The scheduler takes the processor from the running call and gives it to
\* the other one.
switch ==
    /\ other.pc \notin {"none", "done"}
    /\ other' = Frame
    /\ format' = other.format
    /\ data' = other.data
    /\ names' = other.names
    /\ valid' = other.valid
    /\ pc' = other.pc
    /\ i' = other.i
    /\ total_size' = RestoredTotal(other)
    /\ files' = other.files
    /\ output' = other.output
    /\ decompressed' = other.decompressed
    /\ size_error' = other.size_error
    /\ result' = other.result
    /\ ret' = other.ret
    /\ reads' = other.reads
    /\ yielded' = other.yielded
    /\ UNCHANGED <<max_file_size, max_total_size, calls, mime, converted,
                   overflow_checks>>

NextTwo == Next \/ switch

SpecTwo == InitTwo /\ [][NextTwo]_vars

\* ---------------------------------------------------------------- builder
\* No extract call is part of the behaviour.
NoExtract ==
    /\ data = <<>>
    /\ names = <<>>
    /\ valid = TRUE
    /\ Start
    /\ other = NoCall
    /\ overflow_checks = FALSE

call_vars == <<format, data, names, valid, pc, i, total_size, files, output,
               decompressed, size_error, result, ret, reads, yielded, other,
               overflow_checks>>

\* impl Default for ArchiveExtractor
Default == [max_file_size |-> 100 * 1024 * 1024, max_total_size |-> 1024 * 1024 * 1024]

\* ArchiveExtractor::new()
InitBuilder ==
    /\ max_file_size = Default.max_file_size
    /\ max_total_size = Default.max_total_size
    /\ calls = <<>>
    /\ mime = NoMime
    /\ converted = NoConversion
    /\ format = "Zip"
    /\ NoExtract

with_max_file_size(size) ==
    /\ Len(calls) < MaxCalls
    /\ max_file_size' = size
    /\ calls' = Append(calls, [setter |-> "with_max_file_size", size |-> size])
    /\ UNCHANGED <<max_total_size, mime, converted, call_vars>>

\* Mutant: the setter of the aggregate limit writes the per-entry field.
with_max_total_size_WrongField(size) ==
    /\ Len(calls) < MaxCalls
    /\ max_file_size' = size
    /\ calls' = Append(calls, [setter |-> "with_max_total_size", size |-> size])
    /\ UNCHANGED <<max_total_size, mime, converted, call_vars>>

with_max_total_size(size) ==
    /\ Len(calls) < MaxCalls
    /\ max_total_size' = size
    /\ calls' = Append(calls, [setter |-> "with_max_total_size", size |-> size])
    /\ UNCHANGED <<max_file_size, mime, converted, call_vars>>

NextBuilder ==
    \/ \E size \in 0 .. MaxLimit : with_max_file_size(size)
    \/ \E size \in 0 .. MaxLimit : with_max_total_size(size)

SpecBuilder == InitBuilder /\ [][NextBuilder]_vars

\* ---------------------------------------------------------------- format.rs
\* enum ArchiveFormat as format.rs declares it.
FormatVariants ==
    {"Zip", "Tar", "TarGz", "TarBz2", "TarXz", "TarZst", "TarLz4", "Gz", "Bz2", "Xz",
     "Lz4", "Zst", "SevenZ"}

\* The MimeType values the conversions tell apart, and one they do not know.
ArchiveMimes ==
    {"Archive::Zip", "Archive::Tar", "Archive::Gz", "Archive::Bz2", "Archive::Xz",
     "Archive::Lz4", "Archive::Zst", "Archive::SevenZ"}

MimeTypes == ArchiveMimes \cup {"application/octet-stream"}

\* impl From<&ArchiveFormat> for MimeType
MimeFrom(fmt) ==
    CASE fmt = "Zip" -> "Archive::Zip"
      [] fmt = "Tar" -> "Archive::Tar"
      [] fmt = "Gz" -> "Archive::Gz"
      [] fmt = "Bz2" -> "Archive::Bz2"
      [] fmt = "Xz" -> "Archive::Xz"
      [] fmt = "Lz4" -> "Archive::Lz4"
      [] fmt = "Zst" -> "Archive::Zst"
      [] fmt = "SevenZ" -> "Archive::SevenZ"
      [] fmt = "TarGz" -> "Archive::Gz"
      [] fmt = "TarBz2" -> "Archive::Bz2"
      [] fmt = "TarXz" -> "Archive::Xz"
      [] fmt = "TarZst" -> "Archive::Zst"
      [] fmt = "TarLz4" -> "Archive::Lz4"

\* Mutant: the gzip descriptor is taken for a compressed TAR.
TryFrom_GzAsTarGz(m) ==
    CASE m = "Archive::Zip" -> [kind |-> "Ok", format |-> "Zip"]
      [] m = "Archive::Tar" -> [kind |-> "Ok", format |-> "Tar"]
      [] m = "Archive::Gz" -> [kind |-> "Ok", format |-> "TarGz"]
      [] m = "Archive::Bz2" -> [kind |-> "Ok", format |-> "Bz2"]
      [] m = "Archive::Xz" -> [kind |-> "Ok", format |-> "Xz"]
      [] m = "Archive::Lz4" -> [kind |-> "Ok", format |-> "Lz4"]
      [] m = "Archive::Zst" -> [kind |-> "Ok", format |-> "Zst"]
      [] m = "Archive::SevenZ" -> [kind |-> "Ok", format |-> "SevenZ"]
      [] OTHER -> [kind |-> "UnsupportedFormat", format |-> m]

\* impl TryFrom<&MimeType> for ArchiveFormat
TryFrom(m) ==
    CASE m = "Archive::Zip" -> [kind |-> "Ok", format |-> "Zip"]
      [] m = "Archive::Tar" -> [kind |-> "Ok", format |-> "Tar"]
      [] m = "Archive::Gz" -> [kind |-> "Ok", format |-> "Gz"]
      [] m = "Archive::Bz2" -> [kind |-> "Ok", format |-> "Bz2"]
      [] m = "Archive::Xz" -> [kind |-> "Ok", format |-> "Xz"]
      [] m = "Archive::Lz4" -> [kind |-> "Ok", format |-> "Lz4"]
      [] m = "Archive::Zst" -> [kind |-> "Ok", format |-> "Zst"]
      [] m = "Archive::SevenZ" -> [kind |-> "Ok", format |-> "SevenZ"]
      [] OTHER -> [kind |-> "UnsupportedFormat", format |-> m]

\* ArchiveFormat::name
name(fmt) ==
    CASE fmt = "Zip" -> "ZIP"
      [] fmt = "Tar" -> "TAR"
      [] fmt = "TarGz" -> "TAR.GZ"
      [] fmt = "TarBz2" -> "TAR.BZ2"
      [] fmt = "TarXz" -> "TAR.XZ"
      [] fmt = "TarZst" -> "TAR.ZST"
      [] fmt = "TarLz4" -> "TAR.LZ4"
      [] fmt = "Gz" -> "GZIP"
      [] fmt = "Bz2" -> "BZIP2"
      [] fmt = "Xz" -> "XZ"
      [] fmt = "Lz4" -> "LZ4"
      [] fmt = "Zst" -> "ZSTD"
      [] fmt = "SevenZ" -> "7Z"

InitFormat ==
    /\ max_file_size = Default.max_file_size
    /\ max_total_size = Default.max_total_size
    /\ calls = <<>>
    /\ format \in FormatVariants
    /\ mime \in MimeTypes
    /\ converted = NoConversion
    /\ NoExtract

format_vars == <<max_file_size, max_total_size, calls, data, names, valid, pc, i,
                 total_size, files, output, decompressed, size_error, result, ret,
                 reads, yielded, other, overflow_checks>>

\* MimeType::from(&format)
mime_from ==
    /\ mime' = MimeFrom(format)
    /\ converted' = [op |-> "MimeType::from", of |-> format, result |-> mime']
    /\ UNCHANGED <<format, format_vars>>

\* ArchiveFormat::try_from(&mime)
try_from ==
    /\ converted' = [op |-> "ArchiveFormat::try_from", of |-> mime,
                     result |-> TryFrom(mime),
                     source |-> IF converted.op = "MimeType::from"
                                THEN converted.of ELSE NoTag]
    /\ format' = IF TryFrom(mime).kind = "Ok" THEN TryFrom(mime).format ELSE format
    /\ UNCHANGED <<mime, format_vars>>

\* ArchiveFormat::is_supported_mime(&mime)
is_supported_mime ==
    /\ converted' = [op |-> "ArchiveFormat::is_supported_mime", of |-> mime,
                     result |-> (TryFrom(mime).kind = "Ok")]
    /\ UNCHANGED <<format, mime, format_vars>>

NextFormat == mime_from \/ try_from \/ is_supported_mime

SpecFormat == InitFormat /\ [][NextFormat]_vars

\* Decoded bytes the call holds: the buffers and the entries pushed so far.
Buffered == output + decompressed + SumData(files)

\* ---------------------------------------------------------------- properties
Done == pc = "done"

Succeeded == Done /\ ret.kind = "Ok"

\* The step-by-step routines and the start-to-end function are one program.
OutcomeIsExtract ==
    Done => ret = Outcome(format, data, names, valid, max_file_size, max_total_size)

Last(sq) == sq[Len(sq)]

RECURSIVE FileSum(_, _)
\* Sum of the declared sizes of the non-directory entries among d[1..k].
FileSum(d, k) ==
    IF k = 0 THEN 0
    ELSE FileSum(d, k - 1) + (IF d[k].dir THEN 0 ELSE d[k].size)

\* Entry k, taken alone with the entries before it, breaks a limit.
ViolatesAt(k) ==
    /\ ~data[k].dir
    /\ \/ data[k].size > max_file_size
       \/ FileSum(data, k) > max_total_size

FirstViolation(k) == ViolatesAt(k) /\ \A m \in 1 .. k - 1 : ~ViolatesAt(m)

WasYielded(k) == \E n \in 1 .. Len(yielded) : yielded[n] = k

\* C1: on success every non-directory entry of the result holds at most
\* max_file_size bytes, whatever the number of bytes its reader yielded.
C1_EntriesWithinFileLimit ==
    Succeeded =>
        \A k \in 1 .. Len(ret.files) :
            ~ret.files[k].is_directory => ret.files[k].data <= max_file_size

\* C2: on success, for every format tag, the content lengths of the
\* non-directory entries of the result sum to at most max_total_size.
C2_SumWithinTotalLimit == Succeeded => SumData(ret.files) <= max_total_size

\* C3: for the container formats, on success the running total at the end
\* of the entry loop equals the sum of the realized content lengths of the
\* non-directory entries returned.
C3_TotalEqualsRealizedSum ==
    (Succeeded /\ format \in ContainerFormats) => total_size = SumData(ret.files)

\* C4: for container formats, when the first entry the iteration meets that
\* violates a limit is a non-directory entry declaring s > max_file_size,
\* extract fails with FileTooLarge {size: s, limit: max_file_size}.
C4_FileTooLargeCarriesDeclaredSize ==
    (Done /\ format \in ContainerFormats) =>
        \A k \in 1 .. Len(data) :
            (WasYielded(k) /\ FirstViolation(k) /\ data[k].size > max_file_size) =>
                ret = [kind |-> "FileTooLarge", size |-> data[k].size,
                       limit |-> max_file_size, files |-> <<>>]

C4_Witness ==
    /\ Done
    /\ format \in ContainerFormats
    /\ Len(yielded) = 2
    /\ ~data[1].dir
    /\ data[1].size > 0
    /\ FirstViolation(2)
    /\ data[2].size > max_file_size
    /\ ret.kind = "FileTooLarge"

\* C5: for container formats, when every entry so far passed the per-entry
\* limit and a non-directory entry's declared size brings the running total
\* above max_total_size, extract fails at that entry with TotalSizeTooLarge
\* {size: previous total + declared size, limit: max_total_size}.
C5_TotalSizeTooLargeCarriesProjectedTotal ==
    (Done /\ format \in ContainerFormats) =>
        \A k \in 1 .. Len(data) :
            (WasYielded(k) /\ FirstViolation(k) /\ data[k].size <= max_file_size) =>
                ret = [kind |-> "TotalSizeTooLarge", size |-> FileSum(data, k),
                       limit |-> max_total_size, files |-> <<>>]

C5_Witness ==
    /\ Done
    /\ format \in ContainerFormats
    /\ Len(yielded) = 2
    /\ ~data[1].dir
    /\ data[1].size > 0
    /\ FirstViolation(2)
    /\ data[2].size <= max_file_size
    /\ max_file_size > max_total_size
    /\ ret.kind = "TotalSizeTooLarge"
    /\ ret.size = data[1].size + data[2].size

\* C6: for the declared-size formats both limit checks of an entry come
\* before its content is read: a content reader is only ever read for an
\* entry that passed both checks, an entry rejected for its declared size
\* leaves the running total as it was, and a rejected entry is never read.
C6_ChecksBeforeRead ==
    format \in ContainerFormats =>
        /\ \A k \in reads :
               /\ data[k].size <= max_file_size
               /\ FileSum(data, k) <= max_total_size
        /\ (Done /\ ret.kind = "FileTooLarge") =>
               /\ Last(yielded) \notin reads
               /\ total_size = FileSum(data, Last(yielded) - 1)
        /\ (Done /\ ret.kind = "TotalSizeTooLarge") => Last(yielded) \notin reads

C6_Witness ==
    /\ Done
    /\ format \in ContainerFormats
    /\ ret.kind = "FileTooLarge"
    /\ reads = {1}
    /\ Last(yielded) = 2
    /\ total_size > 0

\* C7: for the single-stream codecs the engine never holds more decoded
\* bytes of the stream than max_file_size allows: the limit is enforced
\* while decoding, not after the whole stream has been decoded.
C7_SingleStreamDecodeBounded ==
    (format \in SingleFormats /\ ~Done) => decompressed <= max_file_size

\* C8: for every compressed-TAR tag the decoded bytes the engine has
\* buffered stay within the configured limit at every point of the call,
\* and nothing is buffered before the first entry has been checked.
C8_CompressedTarStreams ==
    (format \in TarCompressed /\ ~Done) =>
        /\ Buffered <= max_total_size
        /\ yielded = <<>> => Buffered = 0

\* An entry at which the call cannot go on.
EntryFails(k) ==
    \/ data[k].fault # "none"
    \/ ViolatesAt(k)
    \/ format \in SingleFormats /\ data[k].yield > max_file_size

\* C9: a failure at any entry makes extract return the error alone: an
\* error carries no entries, and success is returned only when no entry
\* failed and every entry of the container is in the result.
C9_FailureDiscardsPartialResult ==
    Done =>
        /\ ret.kind # "Ok" => ret.files = <<>>
        /\ ret.kind = "Ok" =>
               /\ valid
               /\ Len(ret.files) = Len(data)
               /\ \A k \in 1 .. Len(data) : ~EntryFails(k)

C9_Witness ==
    /\ Done
    /\ format = "SevenZ"
    /\ Len(files) > 0
    /\ reads # {}
    /\ size_error # None
    /\ ret = size_error

\* C10: directory entries are weightless: a returned directory entry has
\* empty data, its content is never read, it adds nothing to the running
\* total and no size check applies to it whatever size its header declares;
\* a container of directory entries only succeeds under any limits with the
\* running total at 0.
C10_DirectoriesWeightless ==
    format \in ContainerFormats =>
        /\ \A k \in reads : ~data[k].dir
        /\ total_size <= FileSum(data, Len(yielded))
        /\ Done /\ ret.kind \in {"FileTooLarge", "TotalSizeTooLarge"} =>
               ~data[Last(yielded)].dir
        /\ Succeeded =>
               \A k \in 1 .. Len(ret.files) :
                   /\ ret.files[k].is_directory = data[k].dir
                   /\ ret.files[k].is_directory => ret.files[k].data = 0
        /\ (Done /\ valid /\ \A k \in 1 .. Len(data) : data[k].dir) =>
               /\ ret.kind = "Ok"
               /\ Len(ret.files) = Len(data)
               /\ total_size = 0

C10_Witness ==
    /\ Succeeded
    /\ Len(data) = MaxEntries
    /\ \A k \in 1 .. Len(data) : data[k].dir /\ data[k].size = MaxSize
    /\ max_file_size = 0
    /\ max_total_size = 0
    /\ \A k \in 1 .. Len(ret.files) : ret.files[k].is_directory /\ ret.files[k].data = 0
    /\ total_size = 0

\* ---------------------------------------------------------------- C11
\* C11: on success the result has one element per entry the reader yielded,
\* the k-th built from the k-th yielded entry (its flag, its content, its
\* name), equal paths kept apart; a container without entries gives Ok([]).
C11_OneElementPerEntryInOrder ==
    /\ Succeeded /\ format \in ContainerFormats =>
          /\ Len(ret.files) = Len(yielded)
          /\ \A k \in 1 .. Len(ret.files) :
                LET e == data[yielded[k]]
                    f == ret.files[k]
                IN  /\ f.is_directory = e.dir
                    /\ f.data = IF e.dir THEN 0 ELSE e.yield
                    /\ names[yielded[k]] \in Utf8Names => f.path = names[yielded[k]]
    /\ pc = "done" /\ format \in ContainerFormats /\ valid /\ data = <<>> => ret = Ok(<<>>)

\* Two entries of one path were both returned, in order.
C11_Witness ==
    /\ Succeeded /\ format \in ContainerFormats
    /\ Len(ret.files) = 2
    /\ ret.files[1].path = ret.files[2].path
    /\ ret.files[1].data # ret.files[2].data

\* ---------------------------------------------------------------- C12
\* C12: a successful single-stream extract returns exactly one entry, not a
\* directory, holding the whole payload; its path is the gzip header's
\* filename when the tag is Gz and the name is present and UTF-8, else "data".
C12_SingleStreamOneEntry ==
    Succeeded /\ format \in SingleFormats =>
        ret.files = <<[path |-> IF format = "Gz" /\ names[1] \in Utf8Names
                                THEN names[1] ELSE "data",
                       data |-> data[1].yield,
                       is_directory |-> FALSE]>>

C12_Witness ==
    /\ Succeeded /\ format = "Gz" /\ names[1] \in Utf8Names
    /\ ret.files[1].path = names[1]
    /\ ret.files[1].data = MaxSize

\* ---------------------------------------------------------------- C13
\* C13: when the content read for an entry is longer or shorter than the
\* size its header declares, extract fails with a structural error.
C13_MismatchIsStructuralError ==
    pc = "done" /\ format \in ContainerFormats
    /\ (\E k \in reads : data[k].fault = "none" /\ data[k].yield # data[k].size)
    => ret.kind \in {"Zip", "Io", "InvalidArchive"}

\* ---------------------------------------------------------------- C14
\* C14: in a 7z call an entry's content is read only inside the callback it
\* was handed to, no entry is handed over twice, and once a callback has
\* recorded a limit error nothing more is handed over, read or pushed and the
\* call returns that error.
C14_SevenZSinglePassEarlyStop ==
    [][format = "SevenZ" =>
        /\ reads' # reads =>
              /\ yielded' = yielded
              /\ yielded # <<>>
              /\ reads' = reads \cup {Last(yielded)}
              /\ Last(yielded) \notin reads
        /\ yielded' # yielded =>
              \E n \in 1 .. Len(data) :
                  /\ yielded' = Append(yielded, n)
                  /\ \A j \in 1 .. Len(yielded) : yielded[j] < n
        /\ size_error # None =>
              /\ yielded' = yielded
              /\ reads' = reads
              /\ files' = files
              /\ pc' = "done" => ret' = size_error]_vars

\* The first callback stopped the traversal with an entry still unvisited.
C14_Witness ==
    /\ format = "SevenZ" /\ pc = "done"
    /\ size_error # None /\ ret = size_error
    /\ Len(data) = 2 /\ yielded = <<1>> /\ reads = {}

\* ---------------------------------------------------------------- C15
\* C15: a call that succeeds under its limits succeeds with the identical
\* entry sequence under every pair of limits that is at least as large.
C15_LimitMonotonicity ==
    Succeeded =>
        \A limit_file \in max_file_size .. MaxLimit + 1 :
            \A limit_total \in max_total_size .. MaxLimit + 1 :
                Outcome(format, data, names, valid, limit_file, limit_total) = ret

\* A success under limits that can both be raised, with content to bound.
C15_Witness ==
    /\ Succeeded
    /\ max_file_size < MaxLimit /\ max_total_size < MaxLimit
    /\ \E k \in 1 .. Len(ret.files) : ret.files[k].data = max_file_size
    /\ max_file_size > 0

\* ---------------------------------------------------------------- C20
\* C20: when one TAR entry stream is extracted successfully under some tag of
\* the TAR family, extracting it under every other tag of the family (plain,
\* or its compressed form under the matching tag) with the same limits
\* returns the same entries: number, paths, contents, order.
C20_TarVariantsAgree ==
    Succeeded /\ format \in TarFormats =>
        \A fmt \in TarFormats :
            Outcome(fmt, data, names, TRUE, max_file_size, max_total_size) = ret

\* A plain TAR stream with a directory and a file was extracted.
C20_Witness ==
    /\ Succeeded /\ format = "Tar"
    /\ Len(ret.files) = 2
    /\ ret.files[1].is_directory
    /\ ret.files[2].data = MaxSize

\* ---------------------------------------------------------------- C16
\* C16: two calls with the same tag on identical bytes, under the same
\* limits, end with the same outcome: the same entry sequence, or the same
\* error kind and payload.
C16_Determinism ==
    /\ Done /\ other.pc = "done"
    /\ format = other.format /\ data = other.data
    /\ names = other.names /\ valid = other.valid
    => ret = other.ret

\* Both calls got the same one-file container and returned it.
C16_Witness ==
    /\ Succeeded /\ other.pc = "done"
    /\ format \in ContainerFormats /\ format = other.format
    /\ data = other.data /\ Len(data) = 1 /\ ~data[1].dir
    /\ Len(ret.files) = 1 /\ ret = other.ret

\* ---------------------------------------------------------------- C19
\* The declared sizes a call has added up: those of the file entries handed
\* to it that passed the per-entry check, the one it is looking at excepted.
RECURSIVE OwnTotal(_, _)
OwnTotal(call, k) ==
    IF k = 0 THEN 0
    ELSE LET e == call.data[call.yielded[k]]
             pending == /\ k = Len(call.yielded)
                        /\ call.pc \in {"zip_entry", "tar_entry", "ar_entry", "7z_closure"}
         IN  OwnTotal(call, k - 1)
             + (IF ~e.dir /\ ~Exceeds(e.size, max_file_size) /\ ~pending
                THEN e.size ELSE 0)

\* C19: however the steps of two calls on one extractor interleave, each
\* call's running total is the sum over its own entries, each call's output
\* holds only its own entries, and each call returns what it returns when it
\* runs alone.
C19_CallsDoNotInterfere ==
    \A call \in {Frame, other} :
        /\ call.total_size = OwnTotal(call, Len(call.yielded))
        /\ Len(call.files) <= Len(call.yielded)
        /\ \A k \in 1 .. Len(call.files) :
              call.files[k].path = Path(call.format, call.names[call.yielded[k]])
        /\ call.pc = "done" =>
              call.ret = Outcome(call.format, call.data, call.names, call.valid,
                                 max_file_size, max_total_size)

\* Both calls were in their entry loops with a file counted, and both ended.
C19_Witness ==
    /\ Done /\ other.pc = "done"
    /\ total_size = 1 /\ other.total_size = 1
    /\ ret.kind = "Ok" /\ other.ret.kind = "Ok"
    /\ format # other.format
    /\ max_total_size = 1

\* ---------------------------------------------------------------- C17
\* C17: converting one of the five compressed-container tags, or the
\* flat-record tag, to a MimeType fails as unsupported; the result is never
\* the MimeType of another format.
C17_CompositeTagsHaveNoMime ==
    converted.op = "MimeType::from" /\ converted.of \in TarCompressed \cup ArFormats
    => converted.result \notin MimeTypes

\* ---------------------------------------------------------------- C18
\* The last argument a setter was called with, or the field's default.
RECURSIVE LastArg(_, _, _)
LastArg(setter, k, default) ==
    IF k = 0 THEN default
    ELSE IF calls[k].setter = setter THEN calls[k].size
    ELSE LastArg(setter, k - 1, default)

\* C18: a new extractor has max_file_size 104857600 and max_total_size
\* 1073741824; after any sequence of setter calls each field holds the
\* argument of the last call of its own setter (its default when there was
\* none), whatever calls of the other setter came before, between or after.
C18_DefaultsAndSetters ==
    /\ max_file_size = LastArg("with_max_file_size", Len(calls), 104857600)
    /\ max_total_size = LastArg("with_max_total_size", Len(calls), 1073741824)

\* with_max_file_size, with_max_total_size, with_max_file_size again.
C18_Witness ==
    /\ Len(calls) = 3
    /\ calls[1].setter = "with_max_file_size"
    /\ calls[2].setter = "with_max_total_size"
    /\ calls[3].setter = "with_max_file_size"
    /\ calls[1].size # calls[3].size
    /\ max_file_size = calls[3].size
    /\ max_total_size = calls[2].size

\* ---------------------------------------------------------------- C21
\* C21: the running total is 0 as long as the call has been handed no entry,
\* and no step of the call makes it smaller.
C21_RunningTotalLocalMonotone ==
    [][/\ yielded' = <<>> => total_size' = 0
       /\ total_size' >= total_size]_vars

\* ---------------------------------------------------------------- C24
\* C24: the running total is the true sum of the declared sizes counted so
\* far (no wrap modulo 2^w), so no content is read, and no call succeeds,
\* once that sum exceeds max_total_size.
C24_NoWraparound ==
    /\ pc \in {"zip_read", "tar_read", "ar_read", "7z_read"} =>
          /\ total_size = FileSum(data, i)
          /\ FileSum(data, i) <= max_total_size
    /\ Succeeded /\ format \in ContainerFormats =>
          FileSum(data, Len(data)) <= max_total_size

\* ---------------------------------------------------------------- C22
\* The input has no fault and stays within both limits, equality included.
WithinLimits ==
    /\ valid
    /\ \A k \in 1 .. Len(data) : data[k].fault = "none"
    /\ IF format \in SingleFormats
       THEN data[1].yield <= max_file_size
       ELSE /\ \A k \in 1 .. Len(data) : ~data[k].dir => data[k].size <= max_file_size
            /\ FileSum(data, Len(data)) <= max_total_size

\* C22: both limits are inclusive: a limit error always carries a size
\* strictly above its limit, and a fault-free input whose sizes are at most
\* max_file_size and whose total is at most max_total_size is extracted.
C22_LimitsInclusive ==
    /\ ret.kind = "FileTooLarge" => ret.size > max_file_size
    /\ ret.kind = "TotalSizeTooLarge" => ret.size > max_total_size
    /\ Done /\ WithinLimits => Succeeded

\* An entry of exactly max_file_size brought the total to exactly
\* max_total_size, and the call succeeded.
C22_Witness ==
    /\ Succeeded /\ format \in ContainerFormats
    /\ max_file_size > 0
    /\ \E k \in 1 .. Len(data) : ~data[k].dir /\ data[k].size = max_file_size
    /\ Len(data) = 2 /\ ~data[1].dir /\ ~data[2].dir /\ data[1].size > 0
    /\ total_size = max_total_size

\* ---------------------------------------------------------------- C23
\* C23: in every container format, a limit error at an entry whose declared
\* size exceeds max_file_size is FileTooLarge, also when the entry would
\* push the running total past max_total_size.
C23_FileCheckFirst ==
    /\ Done /\ format \in ContainerFormats
    /\ ret.kind \in {"FileTooLarge", "TotalSizeTooLarge"}
    /\ data[Last(yielded)].size > max_file_size
    => ret.kind = "FileTooLarge" /\ ret.size = data[Last(yielded)].size

\* The entry broke both limits at once.
C23_Witness ==
    /\ Done /\ format \in ContainerFormats
    /\ ret.kind = "FileTooLarge"
    /\ total_size > 0
    /\ total_size + ret.size > max_total_size

\* ---------------------------------------------------------------- C25
\* In the TAR stream a file entry breaks a limit, no entry before it does or
\* is malformed, and the compressed stream is corrupt somewhere after it.
ViolationThenCorruption ==
    \E k \in 1 .. Len(data) :
        /\ FirstViolation(k)
        /\ \A m \in 1 .. k : data[m].fault = "none"
        /\ \E j \in k + 1 .. Len(data) : data[j].fault = "read"

\* C25: for such a stream every compressed-TAR tag reports the same error,
\* the size violation of the earlier entry.
C25_CompressedTarAgreeOnFailure ==
    Done /\ format \in TarCompressed /\ ViolationThenCorruption =>
        /\ ret.kind \in {"FileTooLarge", "TotalSizeTooLarge"}
        /\ \A fmt \in TarCompressed :
              Outcome(fmt, data, names, TRUE, max_file_size, max_total_size) = ret

\* ---------------------------------------------------------------- C26
\* C26: a call with tag Deb or Ar returns what the call with the other of
\* the two tags returns on the same input; every record is a file counted
\* against both limits, and the result has one entry per record, none of them
\* unpacked further.
C26_DebIsAr ==
    Done /\ format \in ArFormats =>
        /\ \A fmt \in ArFormats :
              Outcome(fmt, data, names, valid, max_file_size, max_total_size) = ret
        /\ Succeeded =>
              /\ total_size = FileSum(data, Len(data))
              /\ Len(ret.files) = Len(data)
              /\ \A k \in 1 .. Len(data) :
                    /\ ~ret.files[k].is_directory
                    /\ ret.files[k].data = data[k].yield
                    /\ data[k].size <= max_file_size
              /\ FileSum(data, Len(data)) <= max_total_size

\* A Deb call returned two records.
C26_Witness ==
    /\ Done /\ format = "Deb"
    /\ Succeeded
    /\ Len(ret.files) = 2
    /\ ret.files[2].data = MaxSize

\* ---------------------------------------------------------------- C27
\* The eight tags that have a MimeType of their own.
PlainTags == {"Zip", "Tar", "Gz", "Bz2", "Xz", "Lz4", "Zst", "SevenZ"}

\* C27: a tag of the eight converted to its MimeType and back is the same
\* tag; a MimeType outside the eight converts to UnsupportedFormat; and
\* is_supported_mime answers true exactly for the eight.
C27_MimeRoundTrip ==
    /\ converted.op = "ArchiveFormat::try_from" =>
          /\ converted.source \in PlainTags =>
                converted.result = [kind |-> "Ok", format |-> converted.source]
          /\ converted.of \notin ArchiveMimes =>
                converted.result.kind = "UnsupportedFormat"
          /\ converted.of \in ArchiveMimes => converted.result.kind = "Ok"
    /\ converted.op = "ArchiveFormat::is_supported_mime" =>
          converted.result = (converted.of \in ArchiveMimes)

\* Gz went to its MimeType and came back.
C27_Witness ==
    /\ converted.op = "ArchiveFormat::try_from"
    /\ converted.source = "Gz"
    /\ converted.of = "Archive::Gz"
    /\ format = "Gz"

\* ---------------------------------------------------------------- C28
\* C28: the tag a call dispatches on is a variant of enum ArchiveFormat, has
\* one extraction routine, and has a name no other variant has.
C28_TagSetClosed ==
    pc # "extract" /\ pc # "none" =>
        /\ format \in FormatVariants
        /\ \A fmt \in FormatVariants \ {format} :
              /\ name(fmt) # name(format)
              /\ Routine(fmt) # Routine(format)

\* ---------------------------------------------------------------- C29
\* C29: no step of a call changes max_file_size, max_total_size or the
\* input (the entries it decodes to, their names, its validity).
C29_CallLeavesConfigAndInput ==
    [][/\ max_file_size' = max_file_size
       /\ max_total_size' = max_total_size
       /\ data' = data
       /\ names' = names
       /\ valid' = valid]_vars

\* A call failed on the aggregate limit after it had pushed an entry.
C29_Witness ==
    /\ Done /\ ret.kind = "TotalSizeTooLarge"
    /\ Len(files) = 1
    /\ max_file_size > max_total_size

\* ---------------------------------------------------------------- C30
\* What a call can return: Ok or one of the variants of ArchiveError.
TypedOutcomes == {"Ok", "Zip", "Io", "InvalidArchive", "FileTooLarge", "TotalSizeTooLarge"}

\* Every step is taken by a call that has not ended; an entry is handed over
\* only when none after it was and no failure is recorded; content is read
\* once per entry; the outcome, once there, ends the call.
OneForwardPass ==
    [][/\ pc # "done"
       /\ ret = None
       /\ ret' # None => pc' = "done"
       /\ yielded' # yielded =>
             /\ size_error = None /\ result # "Err"
             /\ \E n \in 1 .. Len(data) :
                   /\ yielded' = Append(yielded, n)
                   /\ \A j \in 1 .. Len(yielded) : yielded[j] < n
       /\ reads' # reads =>
             \E n \in 1 .. Len(data) : n \notin reads /\ reads' = reads \cup {n}]_vars

Terminates == <>Done

\* C30: every call ends, with exactly one outcome that is Ok or a typed
\* error; each entry is visited at most once, none after the first failure.
C30_TerminatesWithOneOutcome ==
    /\ Terminates
    /\ OneForwardPass
    /\ [](Done => ret.kind \in TypedOutcomes)
====
